---- MODULE Spec2Model ----
(***************************************************************************)
(* Edu-Board: the kanban application of src/app.py as a state machine.     *)
(*                                                                         *)
(* The state is the relational store (users, board, list, card and the     *)
(* board_collaborators association table), the login session of every      *)
(* browser, the response of the last request together with the Socket.IO   *)
(* event it emitted, and the move_card requests that are in flight.        *)
(* Every HTTP handler is one action; under SpecConc move_card is split at  *)
(* its two points of contact with the store (the load and the commit).     *)
(***************************************************************************)
EXTENDS Integers, Sequences, FiniteSets, TLC

\* ------------------------------------------------------------------ bounds
MaxUsers == 2
MaxBoards == 2
MaxLists == 2
MaxCards == 2
MaxPos == 1
NumSessions == 1
MaxInFlight == 2

\* ------------------------------------------------------------ input values
Usernames == {"alice", "bob"}
FormUsernames == Usernames \cup {" bob"}
Passwords == {"pw1", "pw2"}
ChosenPasswords == {"pw1"}
BoardNames == {"Sprint 1", "Sprint 2"}
ListNames == {"Todo"}
CardTitles == {"Write spec"}
Methods == {"GET", "POST"}

Sessions == 1..NumSessions
BoardIds == 1..MaxBoards
ListIds == 1..MaxLists
CardIds == 1..MaxCards
Positions == 0..MaxPos
Slots == 1..MaxInFlight

\* flask_login's AnonymousUserMixin: the current_user of a session without identity
Anonymous == 0

VARIABLES
             \* whether the configured database enforces FOREIGN KEY
    users,                \* table users: sequence of rows, id = index
    board,                \* table board: id -> [name, user_id]
    board_collaborators,  \* association table: sequence of [board_id, user_id]
    list,                 \* table list: id -> [name, board_id]
    card,                 \* table card: id -> [title, position, list_id]
    session,              \* per browser session: the logged-in user id, or Anonymous
    resp,                 \* the last request: handler, status, message, emitted event
    inflight              \* move_card requests between their load and their commit

store == <<users, board, board_collaborators, list, card>>
vars == <<users, board, board_collaborators, list, card, session, resp, inflight>>

\* ----------------------------------------------------------------- helpers
Max(S) == CHOOSE x \in S : \A y \in S : y <= x

\* INTEGER PRIMARY KEY of a new row: one more than the largest id in use
NextId(table) == IF DOMAIN table = {} THEN 1 ELSE Max(DOMAIN table) + 1

Without(table, ids) == [k \in DOMAIN table \ ids |-> table[k]]

Range(seq) == {seq[i] : i \in 1..Len(seq)}

\* werkzeug: generate_password_hash / check_password_hash. The stored value is
\* the method and a digest of the password, never the password; a check
\* recomputes the digest from the candidate. (The random salt, which the check
\* reads back from the stored value, is left out.)
Digest(pwd) == <<"digest", pwd>>

generate_password_hash(pwd) == <<"scrypt", Digest(pwd)>>

check_password_hash(pwhash, pwd) == pwhash[1] = "scrypt" /\ pwhash[2] = Digest(pwd)

\* str.strip() on the usernames of the model
strip(s) == IF s = " bob" THEN "bob" ELSE s

\* User.query.filter_by(username=uname).first(): the id, or Anonymous for None
UserByName(uname) ==
    IF \E i \in 1..Len(users) : users[i].username = uname
    THEN CHOOSE i \in 1..Len(users) :
            /\ users[i].username = uname
            /\ \A j \in 1..Len(users) : users[j].username = uname => i <= j
    ELSE Anonymous

load_user(user_id) == IF user_id \in 1..Len(users) THEN user_id ELSE Anonymous

current_user(s) == load_user(session[s])

is_authenticated(s) == current_user(s) # Anonymous

\* Board.collaborators: the users associated with board b, in row order
collaborators(b) ==
    LET rows == SelectSeq(board_collaborators, LAMBDA r : r.board_id = b)
    IN  [i \in 1..Len(rows) |-> rows[i].user_id]

ListsOf(b) == {l \in DOMAIN list : list[l].board_id = b}

CardsOf(ls) == {c \in DOMAIN card : card[c].list_id \in ls}

\* ---------------------------------------------------------------- responses
NoEvent == [name |-> "none", room |-> 0]
Event(name, room) == [name |-> name, room |-> room]
Reply(op, code, msg, ev) == [op |-> op, code |-> code, msg |-> msg, event |-> ev]

\* @login_required on an anonymous session: redirect to login_view, nothing else
Unauthenticated(op) == Reply(op, 302, "login", NoEvent)

\* The server takes a request when the response to the previous one is sent.
NoReply == Reply("none", 0, "", NoEvent)

ready == resp = NoReply

respond ==
    /\ resp # NoReply
    /\ resp' = NoReply
    /\ UNCHANGED <<store, session, inflight>>

Rejected(s, op) ==
    /\ ~is_authenticated(s)
    /\ resp' = Unauthenticated(op)
    /\ UNCHANGED <<store, session, inflight>>

\* ------------------------------------------------------------ authorization
is_owner_or_collaborator(b, u) ==
    board[b].user_id = u \/ \E i \in 1..Len(board_collaborators) :
        board_collaborators[i] = [board_id |-> b, user_id |-> u]

\* board.owner.id == current_user.id
is_owner(b, u) == board[b].user_id = u

owns_some_board(b, u) == \E x \in DOMAIN board : board[x].user_id = u

\* owner, or current_user in board.collaborators
can_access(b, u) == is_owner(b, u) \/ u \in Range(collaborators(b))

\* ---------------------------------------------------------------------- auth
username_never_taken(uname) == FALSE

\* User.query.filter_by(username=uname).first() is truthy
username_taken(uname) == UserByName(uname) # Anonymous

register(method, uname, pwd) ==
    /\ ready
    /\ UNCHANGED <<board, board_collaborators, list, card, session, inflight>>
    /\ IF method = "POST"
       THEN IF username_taken(uname)
            THEN /\ resp' = Reply("register", 302, "Username already exists!", NoEvent)
                 /\ UNCHANGED users
            ELSE /\ Len(users) < MaxUsers
                 /\ users' = Append(users, [username |-> uname,
                                            password |-> generate_password_hash(pwd)])
                 /\ resp' = Reply("register", 302, "Registration successful! Please login.", NoEvent)
       ELSE /\ resp' = Reply("register", 200, "register.html", NoEvent)
            /\ UNCHANGED users

username_only(uname, pwd) == UserByName(uname) # Anonymous

\* user and check_password_hash(user.password, pwd)
credentials_ok(uname, pwd) ==
    /\ UserByName(uname) # Anonymous
    /\ check_password_hash(users[UserByName(uname)].password, pwd)

\* flask_login.login_user: the session's identity becomes the user's id
login_user(s, u) == [session EXCEPT ![s] = u]

\* flask_login.logout_user: the identity is removed from the session
logout_user(s) == [session EXCEPT ![s] = Anonymous]

login(s, method, uname, pwd) ==
    /\ ready
    /\ UNCHANGED <<store, inflight>>
    /\ IF method = "POST" /\ credentials_ok(uname, pwd)
       THEN /\ session' = login_user(s, UserByName(uname))
            /\ resp' = Reply("login", 302, "dashboard", NoEvent)
       ELSE /\ UNCHANGED session
            /\ resp' = Reply("login", 200,
                             IF method = "POST" THEN "Invalid credentials!" ELSE "login.html",
                             NoEvent)

logout(s) ==
    /\ ready
    /\ \/ Rejected(s, "logout")
       \/ /\ is_authenticated(s)
          /\ session' = logout_user(s)
          /\ resp' = Reply("logout", 302, "You have been logged out.", NoEvent)
          /\ UNCHANGED <<store, inflight>>

dashboard(s) ==
    /\ ready
    /\ \/ Rejected(s, "dashboard")
       \/ /\ is_authenticated(s)
          /\ resp' = Reply("dashboard", 200, "dashboard.html", NoEvent)
          /\ UNCHANGED <<store, session, inflight>>

\* ---------------------------------------------------------------- board CRUD
create_board(s, name) ==
    /\ ready
    /\ \/ Rejected(s, "create_board")
       \/ /\ is_authenticated(s)
          /\ NextId(board) \in BoardIds
          /\ board' = (NextId(board) :> [name |-> name, user_id |-> current_user(s)]) @@ board
          /\ resp' = Reply("create_board", 302, "Board created successfully!",
                           Event("refresh_dashboard", 0))
          /\ UNCHANGED <<users, board_collaborators, list, card, session, inflight>>

update_board(s, b, name) ==
    /\ ready
    /\ \/ Rejected(s, "update_board")
       \/ /\ is_authenticated(s)
          /\ UNCHANGED <<users, board_collaborators, list, card, session, inflight>>
          /\ IF b \notin DOMAIN board
             THEN /\ resp' = Reply("update_board", 404, "Not Found", NoEvent)
                  /\ UNCHANGED board
             ELSE IF ~is_owner(b, current_user(s))
             THEN /\ resp' = Reply("update_board", 302, "Unauthorized action.", NoEvent)
                  /\ UNCHANGED board
             ELSE /\ board' = [board EXCEPT ![b].name = name]
                  /\ resp' = Reply("update_board", 302, "Board renamed successfully!",
                                   Event("refresh_dashboard", 0))

\* cascade="all, delete" of Board.lists and of List.cards; the rows of the
\* secondary table of Board.collaborators go with the board
cascade_lists(b) == ListsOf(b)

no_cascade_cards(ls) == {}

cascade_cards(ls) == CardsOf(ls)

cascade_collaborators(b) == SelectSeq(board_collaborators, LAMBDA r : r.board_id # b)

delete_board(s, b) ==
    /\ ready
    /\ \/ Rejected(s, "delete_board")
       \/ /\ is_authenticated(s)
          /\ UNCHANGED <<users, session, inflight>>
          /\ IF b \notin DOMAIN board
             THEN /\ resp' = Reply("delete_board", 404, "Not Found", NoEvent)
                  /\ UNCHANGED <<board, board_collaborators, list, card>>
             ELSE IF ~is_owner(b, current_user(s))
             THEN /\ resp' = Reply("delete_board", 302, "Unauthorized action.", NoEvent)
                  /\ UNCHANGED <<board, board_collaborators, list, card>>
             ELSE /\ board' = Without(board, {b})
                  /\ list' = Without(list, cascade_lists(b))
                  /\ card' = Without(card, cascade_cards(cascade_lists(b)))
                  /\ board_collaborators' = cascade_collaborators(b)
                  /\ resp' = Reply("delete_board", 302, "Board deleted successfully!",
                                   Event("refresh_dashboard", 0))

view_board(s, b) ==
    /\ ready
    /\ \/ Rejected(s, "view_board")
       \/ /\ is_authenticated(s)
          /\ UNCHANGED <<store, session, inflight>>
          /\ resp' = IF b \notin DOMAIN board
                     THEN Reply("view_board", 404, "Not Found", NoEvent)
                     ELSE IF ~can_access(b, current_user(s))
                     THEN Reply("view_board", 302, "Access denied.", NoEvent)
                     ELSE Reply("view_board", 200, "board.html", NoEvent)

\* -------------------------------------------------------------- collaborators
already_collaborator(b, u) == u \in Range(collaborators(b))

\* user == board.owner or user in board.collaborators
already_member(b, u) == u = board[b].user_id \/ u \in Range(collaborators(b))

add_collaborator(s, b, username) ==
    /\ ready
    /\ \/ Rejected(s, "add_collaborator")
       \/ /\ is_authenticated(s)
          /\ UNCHANGED <<users, board, list, card, session, inflight>>
          /\ IF b \notin DOMAIN board
             THEN /\ resp' = Reply("add_collaborator", 404, "Not Found", NoEvent)
                  /\ UNCHANGED board_collaborators
             ELSE IF ~is_owner(b, current_user(s))
             THEN /\ resp' = Reply("add_collaborator", 302,
                                   "Only board owners can add collaborators.", NoEvent)
                  /\ UNCHANGED board_collaborators
             ELSE LET user == UserByName(strip(username))
                  IN  IF user = Anonymous
                      THEN /\ resp' = Reply("add_collaborator", 302, "User not found!", NoEvent)
                           /\ UNCHANGED board_collaborators
                      ELSE IF already_member(b, user)
                      THEN /\ resp' = Reply("add_collaborator", 302,
                                            "User is already a collaborator or owner.", NoEvent)
                           /\ UNCHANGED board_collaborators
                      ELSE /\ board_collaborators' =
                                 Append(board_collaborators, [board_id |-> b, user_id |-> user])
                           /\ resp' = Reply("add_collaborator", 302, "added as collaborator!",
                                            Event("refresh_board", b))

\* ----------------------------------------------------------------- list CRUD
\* db.session.commit() of a row whose foreign key is id. When id names no row
\* of the parent table the outcome is the database's, which Config selects: an
\* IntegrityError where FOREIGN KEY constraints are enforced, a stored row
\* where they are not (SQLite unless PRAGMA foreign_keys is set).
commit_outcomes(parent_ids, id) ==
    IF id \in parent_ids THEN {"stored"} ELSE {"stored", "IntegrityError"}

add_list(s, b, name) ==
    /\ ready
    /\ \/ Rejected(s, "add_list")
       \/ /\ is_authenticated(s)
          /\ UNCHANGED <<users, board, board_collaborators, card, session, inflight>>
          /\ \E outcome \in commit_outcomes(DOMAIN board, b) :
             IF outcome = "stored"
             THEN /\ NextId(list) \in ListIds
                  /\ list' = (NextId(list) :> [name |-> name, board_id |-> b]) @@ list
                  /\ resp' = Reply("add_list", 302, "List added successfully!",
                                   Event("refresh_board", b))
             ELSE /\ resp' = Reply("add_list", 500, "IntegrityError", NoEvent)
                  /\ UNCHANGED list

update_list(s, l, name) ==
    /\ ready
    /\ \/ Rejected(s, "update_list")
       \/ /\ is_authenticated(s)
          /\ UNCHANGED <<users, board, board_collaborators, card, session, inflight>>
          /\ IF l \notin DOMAIN list
             THEN /\ resp' = Reply("update_list", 404, "Not Found", NoEvent)
                  /\ UNCHANGED list
             ELSE /\ list' = [list EXCEPT ![l].name = name]
                  /\ resp' = Reply("update_list", 302, "List updated successfully!",
                                   Event("refresh_board", list[l].board_id))

delete_list(s, l) ==
    /\ ready
    /\ \/ Rejected(s, "delete_list")
       \/ /\ is_authenticated(s)
          /\ UNCHANGED <<users, board, board_collaborators, session, inflight>>
          /\ IF l \notin DOMAIN list
             THEN /\ resp' = Reply("delete_list", 404, "Not Found", NoEvent)
                  /\ UNCHANGED <<list, card>>
             ELSE /\ list' = Without(list, {l})
                  /\ card' = Without(card, cascade_cards({l}))
                  /\ resp' = Reply("delete_list", 302, "List deleted successfully!",
                                   Event("refresh_board", list[l].board_id))

\* ----------------------------------------------------------------- card CRUD
\* new_card.list.board_id, or list_id when new_card.list is None
add_card_room(l) == IF l \in DOMAIN list THEN list[l].board_id ELSE l

add_card(s, l, title) ==
    /\ ready
    /\ \/ Rejected(s, "add_card")
       \/ /\ is_authenticated(s)
          /\ UNCHANGED <<users, board, board_collaborators, list, session, inflight>>
          /\ \E outcome \in commit_outcomes(DOMAIN list, l) :
             IF outcome = "stored"
             THEN /\ NextId(card) \in CardIds
                  /\ card' = (NextId(card) :> [title |-> title, position |-> 0, list_id |-> l])
                                 @@ card
                  /\ resp' = Reply("add_card", 302, "Card added successfully!",
                                   Event("refresh_board", add_card_room(l)))
             ELSE /\ resp' = Reply("add_card", 500, "IntegrityError", NoEvent)
                  /\ UNCHANGED card

\* card.list is None when the card's list_id names no list
has_list(c) == card[c].list_id \in DOMAIN list

update_card(s, c, title) ==
    /\ ready
    /\ \/ Rejected(s, "update_card")
       \/ /\ is_authenticated(s)
          /\ UNCHANGED <<users, board, board_collaborators, list, session, inflight>>
          /\ IF c \notin DOMAIN card
             THEN /\ resp' = Reply("update_card", 404, "Not Found", NoEvent)
                  /\ UNCHANGED card
             ELSE /\ card' = [card EXCEPT ![c].title = title]
                  /\ resp' = IF has_list(c)
                             THEN Reply("update_card", 302, "Card updated successfully!",
                                        Event("refresh_board", list[card[c].list_id].board_id))
                             ELSE Reply("update_card", 500, "AttributeError", NoEvent)

delete_card(s, c) ==
    /\ ready
    /\ \/ Rejected(s, "delete_card")
       \/ /\ is_authenticated(s)
          /\ UNCHANGED <<users, board, board_collaborators, list, session, inflight>>
          /\ IF c \notin DOMAIN card
             THEN /\ resp' = Reply("delete_card", 404, "Not Found", NoEvent)
                  /\ UNCHANGED card
             ELSE IF ~has_list(c)
             THEN /\ resp' = Reply("delete_card", 500, "AttributeError", NoEvent)
                  /\ UNCHANGED card
             ELSE /\ card' = Without(card, {c})
                  /\ resp' = Reply("delete_card", 302, "Card deleted successfully!",
                                   Event("refresh_board", list[card[c].list_id].board_id))

\* ----------------------------------------------------------------- card move
move_unchecked(l, u) == TRUE

\* new_list.board.owner.id == current_user.id or current_user in new_list.board.collaborators
move_authorized(l, u) == can_access(list[l].board_id, u)

\* The status move_card has reached after its two get_or_404 and its permission
\* check; 200 stands for "goes on to the write". new_list.board is None, and
\* .owner raises, when the list's board_id names no board.
move_check(u, c, l) ==
    IF c \notin DOMAIN card \/ l \notin DOMAIN list THEN 404
    ELSE IF list[l].board_id \notin DOMAIN board THEN 500
    ELSE IF ~move_authorized(l, u) THEN 403
    ELSE 200

move_failure(code) ==
    Reply("move_card", code,
          IF code = 403 THEN "Unauthorized" ELSE IF code = 404 THEN "Not Found" ELSE "AttributeError",
          NoEvent)

flush_card_shifted(row, loaded, l, pos) ==
    [row EXCEPT !.list_id = l, !.position = @ + pos]

\* The UPDATE the unit of work flushes for a Card loaded as `loaded` whose
\* list_id and position were then assigned l and pos: it sets the columns whose
\* assigned value differs from the loaded one, and only those, on the stored row.
flush_card(row, loaded, l, pos) ==
    [row EXCEPT !.list_id = IF l # loaded.list_id THEN l ELSE @,
                !.position = IF pos # loaded.position THEN pos ELSE @]

\* the card table after one whole move_card request that passed its checks
move_card_store(cs, c, l, pos) == [cs EXCEPT ![c] = flush_card(cs[c], cs[c], l, pos)]

move_ok(l) == Reply("move_card", 200, "Card moved successfully",
                    Event("card_moved", list[l].board_id))

move_card(s, c, l, pos) ==
    /\ ready
    /\ \/ Rejected(s, "move_card")
       \/ /\ is_authenticated(s)
          /\ UNCHANGED <<users, board, board_collaborators, list, session, inflight>>
          /\ IF move_check(current_user(s), c, l) = 200
             THEN /\ card' = move_card_store(card, c, l, pos)
                  /\ resp' = move_ok(l)
             ELSE /\ resp' = move_failure(move_check(current_user(s), c, l))
                  /\ UNCHANGED card

\* move_card as two steps, for requests served at the same time: the load with
\* the permission check (lines 302-308), then the write and the commit (310-320).
NoRow == [title |-> "", position |-> 0, list_id |-> 0]
Idle == [st |-> "idle", card_id |-> 0, new_list_id |-> 0, new_position |-> 0, loaded |-> NoRow]

move_card_load(k, s, c, l, pos) ==
    /\ ready
    /\ inflight[k].st # "loaded"
    /\ \/ Rejected(s, "move_card")
       \/ /\ is_authenticated(s)
          /\ UNCHANGED <<store, session>>
          /\ IF move_check(current_user(s), c, l) = 200
             THEN /\ inflight' = [inflight EXCEPT ![k] =
                        [st |-> "loaded", card_id |-> c, new_list_id |-> l,
                         new_position |-> pos, loaded |-> card[c]]]
                  /\ UNCHANGED resp
             ELSE /\ resp' = move_failure(move_check(current_user(s), c, l))
                  /\ inflight' = [inflight EXCEPT ![k] = Idle]

\* the commit finds the row gone (StaleDataError / ObjectDeletedError), or the
\* new list gone (IntegrityError where enforced; else the row is written and
\* the refresh of new_list for the event raises), or it succeeds
move_card_commit(k) ==
    LET r == inflight[k]
        c == r.card_id
        l == r.new_list_id
        written == [card EXCEPT ![c] = flush_card(card[c], r.loaded, l, r.new_position)]
    IN  /\ ready
        /\ r.st = "loaded"
        /\ UNCHANGED <<users, board, board_collaborators, list, session>>
        /\ IF c \notin DOMAIN card
           THEN /\ UNCHANGED card
                /\ resp' = Reply("move_card", 500, "StaleDataError", NoEvent)
                /\ inflight' = [inflight EXCEPT ![k] = Idle]
           ELSE IF l \notin DOMAIN list
           THEN /\ \E outcome \in commit_outcomes(DOMAIN list, written[c].list_id) :
                        card' = IF outcome = "stored" THEN written ELSE card
                /\ resp' = Reply("move_card", 500, "ObjectDeletedError", NoEvent)
                /\ inflight' = [inflight EXCEPT ![k] = Idle]
           ELSE /\ card' = written
                /\ resp' = move_ok(l)
                /\ inflight' = [inflight EXCEPT ![k] = [r EXCEPT !.st = "done", !.loaded = NoRow]]

\* --------------------------------------------------------------- file upload
Filenames == {"", "notes.txt", "../notes.txt"}

\* werkzeug.utils.secure_filename on the file names of the model
secure_filename(name) == IF name = "../notes.txt" THEN "notes.txt" ELSE name

upload_file(s, has_file, filename) ==
    /\ ready
    /\ \/ Rejected(s, "upload_file")
       \/ /\ is_authenticated(s)
          /\ UNCHANGED <<store, session, inflight>>
          /\ resp' = IF ~has_file THEN Reply("upload_file", 400, "No file part", NoEvent)
                     ELSE IF filename = "" THEN Reply("upload_file", 400, "No selected file", NoEvent)
                     ELSE Reply("upload_file", 200, secure_filename(filename), NoEvent)

\* ------------------------------------------------------------- specification
Init ==
    /\ users = <<>>
    /\ board = <<>>
    /\ board_collaborators = <<>>
    /\ list = <<>>
    /\ card = <<>>
    /\ session = [s \in Sessions |-> Anonymous]
    /\ resp = NoReply
    /\ inflight = [k \in Slots |-> Idle]

Next ==
    \/ respond
    \/ \E m \in Methods, u \in Usernames, p \in ChosenPasswords : register(m, u, p)
    \/ \E s \in Sessions, m \in Methods, u \in Usernames, p \in Passwords : login(s, m, u, p)
    \/ \E s \in Sessions : logout(s)
    \/ \E s \in Sessions : dashboard(s)
    \/ \E s \in Sessions, n \in BoardNames : create_board(s, n)
    \/ \E s \in Sessions, b \in BoardIds, n \in BoardNames : update_board(s, b, n)
    \/ \E s \in Sessions, b \in BoardIds : delete_board(s, b)
    \/ \E s \in Sessions, b \in BoardIds : view_board(s, b)
    \/ \E s \in Sessions, b \in BoardIds, u \in FormUsernames : add_collaborator(s, b, u)
    \/ \E s \in Sessions, b \in BoardIds, n \in ListNames : add_list(s, b, n)
    \/ \E s \in Sessions, l \in ListIds, n \in ListNames : update_list(s, l, n)
    \/ \E s \in Sessions, l \in ListIds : delete_list(s, l)
    \/ \E s \in Sessions, l \in ListIds, n \in CardTitles : add_card(s, l, n)
    \/ \E s \in Sessions, c \in CardIds, n \in CardTitles : update_card(s, c, n)
    \/ \E s \in Sessions, c \in CardIds : delete_card(s, c)
    \/ \E s \in Sessions, c \in CardIds, l \in ListIds, p \in Positions : move_card(s, c, l, p)
    \/ \E s \in Sessions, f \in BOOLEAN, n \in Filenames : upload_file(s, f, n)

Spec == Init /\ [][Next]_vars

\* Two move_card requests in flight at once, on a board set up by one user.
NextConc ==
    \/ respond
    \/ register("POST", "alice", "pw1")
    \/ \E s \in Sessions : login(s, "POST", "alice", "pw1")
    \/ \E s \in Sessions : create_board(s, "Sprint 1")
    \/ \E s \in Sessions, b \in BoardIds, n \in ListNames : add_list(s, b, n)
    \/ \E s \in Sessions, l \in ListIds, n \in CardTitles : add_card(s, l, n)
    \/ \E k \in Slots, s \in Sessions, c \in CardIds, l \in ListIds, p \in Positions :
            move_card_load(k, s, c, l, p)
    \/ \E k \in Slots : move_card_commit(k)

SpecConc == Init /\ [][NextConc]_vars

\* ==================================================================== claims
\* What the claims speak of, read off the tables themselves.
Owner(b) == board[b].user_id

Collaborates(b, u) ==
    \E i \in 1..Len(board_collaborators) :
        board_collaborators[i].board_id = b /\ board_collaborators[i].user_id = u

LoggedIn(s) == session[s] \in 1..Len(users)

Forbidden == resp'.code = 302 /\ resp'.msg = "Unauthorized action." /\ resp'.event = NoEvent

\* C1: update_board and delete_board on an existing board succeed for the
\* board's owner; for any other logged-in user, a collaborator included, they
\* answer "Unauthorized action." and leave every table as it was.
C1_OwnerOnly ==
    [][\A s \in Sessions, b \in BoardIds :
        (LoggedIn(s) /\ b \in DOMAIN board) =>
            /\ \A n \in BoardNames : (resp'.op = "update_board" /\ update_board(s, b, n)) =>
                 IF Owner(b) = session[s]
                 THEN /\ board' = [board EXCEPT ![b].name = n]
                      /\ resp'.msg = "Board renamed successfully!"
                 ELSE Forbidden /\ UNCHANGED store
            /\ (resp'.op = "delete_board" /\ delete_board(s, b)) =>
                 IF Owner(b) = session[s]
                 THEN /\ b \notin DOMAIN board'
                      /\ resp'.msg = "Board deleted successfully!"
                 ELSE Forbidden /\ UNCHANGED store]_vars

\* a collaborator of every board there is has just been refused
C1_Witness ==
    /\ resp.op \in {"update_board", "delete_board"}
    /\ resp.msg = "Unauthorized action."
    /\ DOMAIN board # {}
    /\ \E s \in Sessions : \A b \in DOMAIN board : Collaborates(b, session[s])

\* C2: a delete_board by the owner removes the board, exactly the lists whose
\* board_id is the board, exactly the cards whose list_id is one of those lists
\* and exactly the association rows of the board; every other row is unchanged.
C2_CascadeDelete ==
    [][\A s \in Sessions, b \in BoardIds :
        (/\ resp'.op = "delete_board"
         /\ LoggedIn(s) /\ b \in DOMAIN board /\ Owner(b) = session[s]
         /\ delete_board(s, b)) =>
            LET gone == {l \in DOMAIN list : list[l].board_id = b}
            IN  /\ DOMAIN board' = DOMAIN board \ {b}
                /\ \A x \in DOMAIN board' : board'[x] = board[x]
                /\ DOMAIN list' = DOMAIN list \ gone
                /\ \A l \in DOMAIN list' : list'[l] = list[l]
                /\ DOMAIN card' = {c \in DOMAIN card : card[c].list_id \notin gone}
                /\ \A c \in DOMAIN card' : card'[c] = card[c]
                /\ board_collaborators' =
                       SelectSeq(board_collaborators, LAMBDA r : r.board_id # b)
                /\ \A i \in 1..Len(board_collaborators') : board_collaborators'[i].board_id # b
                /\ users' = users]_vars

\* a board has just been deleted and another, with a list, a card and a
\* collaborator, is still there
C2_Witness ==
    /\ resp.msg = "Board deleted successfully!"
    /\ \E b \in DOMAIN board :
          /\ \E l \in DOMAIN list : list[l].board_id = b /\ \E c \in DOMAIN card : card[c].list_id = l
          /\ \E u \in 1..Len(users) : Collaborates(b, u)

\* C3: move_card of an existing card to an existing list of an existing board by
\* a logged-in user who neither owns that board nor collaborates on it answers
\* 403 {"error": "Unauthorized"}, emits nothing and leaves every table as it was.
C3_MoveUnauthorized ==
    [][\A s \in Sessions, c \in CardIds, l \in ListIds, p \in Positions :
        (/\ resp'.op = "move_card"
         /\ LoggedIn(s) /\ c \in DOMAIN card /\ l \in DOMAIN list
         /\ list[l].board_id \in DOMAIN board
         /\ Owner(list[l].board_id) # session[s]
         /\ ~Collaborates(list[l].board_id, session[s])
         /\ move_card(s, c, l, p)) =>
            /\ resp' = [op |-> "move_card", code |-> 403, msg |-> "Unauthorized", event |-> NoEvent]
            /\ UNCHANGED store]_vars

C3_Witness ==
    /\ resp.op = "move_card" /\ resp.code = 403
    /\ \E c \in DOMAIN card : card[c].list_id \in DOMAIN list

\* C4: after a move_card that succeeded, the same request passes the same
\* checks again and writes the card table it already finds.
C4_MoveIdempotent ==
    [][\A s \in Sessions, c \in CardIds, l \in ListIds, p \in Positions :
        (resp'.op = "move_card" /\ resp'.code = 200 /\ move_card(s, c, l, p)) =>
            /\ (move_check(current_user(s), c, l) = 200)'
            /\ move_card_store(card', c, l, p) = card']_vars

\* a move has just put a card at a position other than the default
C4_Witness ==
    /\ resp.op = "move_card" /\ resp.code = 200
    /\ \E c \in DOMAIN card : card[c].position # 0

UniqueUsernames ==
    \A i, j \in 1..Len(users) : users[i].username = users[j].username => i = j

\* C5: a POST to register with a username some user has answers "Username
\* already exists!" and leaves the users table as it was; no two users ever
\* have the same username.
C5_DuplicateUsername ==
    [][/\ \A u \in Usernames, p \in Passwords :
            (/\ resp'.op = "register"
             /\ \E i \in 1..Len(users) : users[i].username = u
             /\ register("POST", u, p)) =>
                /\ users' = users
                /\ resp'.code = 302 /\ resp'.msg = "Username already exists!"
       /\ UniqueUsernames']_vars

C5_Witness ==
    /\ resp.op = "register" /\ resp.msg = "Username already exists!"
    /\ Len(users) = MaxUsers

\* a step of session s that is a POST to login with the username and the
\* password of a registered user, and makes that user the session's identity
ValidLogin(s) ==
    /\ resp'.op = "login"
    /\ \E u \in Usernames, p \in Passwords :
          /\ \E i \in 1..Len(users) :
                /\ users[i].username = u
                /\ users[i].password = generate_password_hash(p)
                /\ session'[s] = i
          /\ login(s, "POST", u, p)

Logout(s) == resp'.op = "logout" /\ logout(s) /\ session'[s] = Anonymous

\* a request to login that is no POST of a registered username with its
\* password leaves the session as it was and renders the login page again
InvalidLoginRefused(s) ==
    \A m \in Methods, u \in Usernames, p \in Passwords :
        (/\ resp'.op = "login"
         /\ ~(m = "POST" /\ \E i \in 1..Len(users) :
                  users[i].username = u /\ users[i].password = generate_password_hash(p))
         /\ login(s, m, u, p)) =>
            session' = session /\ resp'.code = 200

\* a step of session s that is a request to one of the @login_required routes
ProtectedRequest(s) ==
    \/ resp'.op = "logout" /\ logout(s)
    \/ resp'.op = "dashboard" /\ dashboard(s)
    \/ resp'.op = "create_board" /\ \E n \in BoardNames : create_board(s, n)
    \/ resp'.op = "update_board" /\ \E b \in BoardIds, n \in BoardNames : update_board(s, b, n)
    \/ resp'.op = "delete_board" /\ \E b \in BoardIds : delete_board(s, b)
    \/ resp'.op = "view_board" /\ \E b \in BoardIds : view_board(s, b)
    \/ resp'.op = "add_collaborator" /\
            \E b \in BoardIds, u \in FormUsernames : add_collaborator(s, b, u)
    \/ resp'.op = "add_list" /\ \E b \in BoardIds, n \in ListNames : add_list(s, b, n)
    \/ resp'.op = "update_list" /\ \E l \in ListIds, n \in ListNames : update_list(s, l, n)
    \/ resp'.op = "delete_list" /\ \E l \in ListIds : delete_list(s, l)
    \/ resp'.op = "add_card" /\ \E l \in ListIds, n \in CardTitles : add_card(s, l, n)
    \/ resp'.op = "update_card" /\ \E c \in CardIds, n \in CardTitles : update_card(s, c, n)
    \/ resp'.op = "delete_card" /\ \E c \in CardIds : delete_card(s, c)
    \/ resp'.op = "move_card" /\
            \E c \in CardIds, l \in ListIds, p \in Positions : move_card(s, c, l, p)
    \/ resp'.op = "upload_file" /\ \E f \in BOOLEAN, n \in Filenames : upload_file(s, f, n)

RejectedUnchanged ==
    /\ resp'.code = 302 /\ resp'.msg = "login" /\ resp'.event = NoEvent
    /\ UNCHANGED <<store, session>>

\* C6 as claimed: a session gets an identity only by a valid login, keeps that
\* very identity until a logout, and a request to a protected route on a
\* session without identity is redirected to login and changes no table.
C6_SessionUntilLogout ==
    [][\A s \in Sessions :
        /\ (session[s] = Anonymous /\ session'[s] # Anonymous) => ValidLogin(s)
        /\ InvalidLoginRefused(s)
        /\ (session[s] # Anonymous /\ session'[s] # session[s]) => Logout(s)
        /\ (~LoggedIn(s) /\ ProtectedRequest(s)) => RejectedUnchanged]_vars

\* C6, amended: a session's identity changes only by a valid login, which
\* makes it the user logged in (also on a session that has an identity
\* already), or by a logout; a request to a protected route on a session
\* without identity is redirected to login and changes no table.
C6_SessionUntilLogoutOrLogin ==
    [][\A s \in Sessions :
        /\ (session[s] = Anonymous /\ session'[s] # Anonymous) => ValidLogin(s)
        /\ InvalidLoginRefused(s)
        /\ (session[s] # Anonymous /\ session'[s] # session[s]) => (Logout(s) \/ ValidLogin(s))
        /\ (~LoggedIn(s) /\ ProtectedRequest(s)) => RejectedUnchanged]_vars

\* the second registered user has just logged in
C6_Witness ==
    /\ resp.op = "login" /\ resp.code = 302
    /\ \E s \in Sessions : session[s] = MaxUsers /\ LoggedIn(s)

NoOwnerNoDuplicate ==
    /\ \A b \in DOMAIN board : ~Collaborates(b, Owner(b))
    /\ \A i, j \in 1..Len(board_collaborators) :
          board_collaborators[i] = board_collaborators[j] => i = j

\* C7: no board has its owner among its collaborators and no association row
\* occurs twice; add_collaborator appends the row of the board and the user
\* named (stripped) and emits refresh_board exactly when the actor owns the
\* board and that user exists and is neither the owner nor a collaborator yet,
\* and otherwise leaves the association table as it was and emits nothing.
C7_Collaborators ==
    [][/\ NoOwnerNoDuplicate'
       /\ \A s \in Sessions, b \in BoardIds, u \in FormUsernames :
            (resp'.op = "add_collaborator" /\ LoggedIn(s) /\ add_collaborator(s, b, u)) =>
                LET target == {i \in 1..Len(users) : users[i].username = strip(u)}
                    adds == /\ b \in DOMAIN board
                            /\ Owner(b) = session[s]
                            /\ target # {}
                            /\ \A i \in target : i # Owner(b) /\ ~Collaborates(b, i)
                IN  IF adds
                    THEN /\ \E i \in target : board_collaborators' =
                               Append(board_collaborators, [board_id |-> b, user_id |-> i])
                         /\ resp'.event = Event("refresh_board", b)
                    ELSE /\ board_collaborators' = board_collaborators
                         /\ resp'.event = NoEvent]_vars

\* the owner has just been told the user is a member already, on a board
\* that has a collaborator
C7_Witness ==
    /\ resp.op = "add_collaborator"
    /\ resp.msg = "User is already a collaborator or owner."
    /\ board_collaborators # <<>>

HasAccess(b, u) == b \in DOMAIN board /\ (Owner(b) = u \/ Collaborates(b, u))

\* C8 as claimed: a move_card changes a card (of a list of a board) only when
\* the actor owns the board the card is on or collaborates on it.
C8_MoveNeedsAccessToCard ==
    [][\A s \in Sessions, c \in CardIds, l \in ListIds, p \in Positions :
        (/\ resp'.op = "move_card"
         /\ c \in DOMAIN card /\ card[c].list_id \in DOMAIN list
         /\ list[card[c].list_id].board_id \in DOMAIN board
         /\ move_card(s, c, l, p)
         /\ card'[c] # card[c]) =>
            LoggedIn(s) /\ HasAccess(list[card[c].list_id].board_id, session[s])]_vars

\* C8, amended: a move_card changes a card only when the actor owns the board
\* of the destination list or collaborates on it, and then the card has the
\* list and the position of the request.
C8_MoveNeedsAccessToDestination ==
    [][\A s \in Sessions, c \in CardIds, l \in ListIds, p \in Positions :
        (/\ resp'.op = "move_card"
         /\ c \in DOMAIN card
         /\ move_card(s, c, l, p)
         /\ card'[c] # card[c]) =>
            /\ LoggedIn(s) /\ l \in DOMAIN list /\ HasAccess(list[l].board_id, session[s])
            /\ card'[c].list_id = l /\ card'[c].position = p]_vars

\* a card has just been moved while there is a board the actor has no access to
C8_Witness ==
    /\ resp.op = "move_card" /\ resp.code = 200
    /\ \E s \in Sessions, b \in DOMAIN board : LoggedIn(s) /\ ~HasAccess(b, session[s])

\* C9: every card's list_id is the id of a list and every list's board_id is
\* the id of a board.
C9_ReferentialIntegrity ==
    /\ \A c \in DOMAIN card : card[c].list_id \in DOMAIN list
    /\ \A l \in DOMAIN list : list[l].board_id \in DOMAIN board

Requested(k) == <<inflight[k].new_list_id, inflight[k].new_position>>

\* C10: when two move_card requests for the same card have both committed, the
\* card's list_id and position are those of one of the two requests.
C10_LastCommitWins ==
    \A j, k \in Slots :
        (/\ j # k
         /\ inflight[j].st = "done" /\ inflight[k].st = "done"
         /\ inflight[j].card_id = inflight[k].card_id
         /\ inflight[j].card_id \in DOMAIN card) =>
            <<card[inflight[j].card_id].list_id, card[inflight[j].card_id].position>>
                \in {Requested(j), Requested(k)}

====
